---- MODULE Spec2Model ----
(***************************************************************************)
(* A model of litex/gen/fhdl/verilog.py, the Verilog back end of LiteX:    *)
(* expression and statement rendering, the module header, the two          *)
(* combinatorial strategies, the synchronous section and convert().        *)
(*                                                                         *)
(* Text is modelled as a sequence of tokens (strings); a document section  *)
(* is a sequence of lines, each line a sequence of tokens.  Concatenating  *)
(* the tokens of a value gives the text the Python code builds.            *)
(***************************************************************************)
EXTENDS Integers, Sequences, FiniteSets, TLC

VARIABLES
    node,          \* the expression handed to _print_expression
    res,           \* what _print_expression returned for it
    stmt,          \* the statement handed to _print_node
    nargs,         \* the other arguments of that call: at, level, target_filter
    nres,          \* what _print_node returned for it
    sync,          \* f.sync: <<domain name, block>> pairs in insertion order
    clock_domains, \* f.clock_domains: the registry, a list of clock domains
    sres,          \* what _print_synchronous_logic returned
    frag,          \* the fragment handed to convert
    cargs,         \* the other arguments of the last call of convert
    cres,          \* what the last call of convert returned or raised
    default_ios,   \* the set object that is the default value of ios
    ncreated       \* the number of clock domains convert has made so far

exprVars == <<node, res>>
nodeVars == <<stmt, nargs, nres>>
syncVars == <<sync, clock_domains, sres>>
convVars == <<frag, cargs, cres, default_ios, ncreated>>
vars     == <<node, res, stmt, nargs, nres, sync, clock_domains, sres,
             frag, cargs, cres, default_ios, ncreated>>

\* What the actions of one part of the model leave alone.
otherThanExpr == <<nodeVars, syncVars, convVars>>
otherThanNode == <<exprVars, syncVars, convVars>>
otherThanSync == <<exprVars, nodeVars, convVars>>
otherThanConv == <<exprVars, nodeVars, syncVars>>

(***************************************************************************)
(* Bounds of the model.                                                    *)
(***************************************************************************)
MaxDepth == 2          \* nesting depth of the expressions that are rendered
MaxArms == 3           \* arms of the Case statements that are rendered
MaxSyncOps == 3        \* additions to the synchronous mapping of a fragment
MaxComb == 2           \* combinatorial statements of a fragment
MaxCreated == 3        \* clock domains made by convert before the calls stop
MaxNamed == 2          \* signals declared with a name of the pool

(***************************************************************************)
(* Generic helpers on sequences.                                           *)
(***************************************************************************)
Range(s) == {s[i] : i \in 1..Len(s)}

Reverse(s) == [i \in 1..Len(s) |-> s[Len(s) + 1 - i]]

RECURSIVE Flatten(_)
Flatten(ss) == IF ss = <<>> THEN <<>> ELSE Head(ss) \o Flatten(Tail(ss))

RECURSIVE JoinWith(_, _)
JoinWith(sep, ss) ==
    IF ss = <<>> THEN <<>>
    ELSE IF Len(ss) = 1 THEN ss[1]
    ELSE ss[1] \o sep \o JoinWith(sep, Tail(ss))

Abs(n) == IF n >= 0 THEN n ELSE -n

(***************************************************************************)
(* Reserved keywords, exactly as the table of the source spells them.      *)
(***************************************************************************)
_ieee_1800_2017_verilog_reserved_keywords == {
    "accept_on", "alias", "always", "always_comb", "always_ff",
    "always_latch", "and", "assert", "assign", "assume",
    "automatic", "before", "begin", "bind", "bins",
    "binsof", "bit", "break", "buf", "bufif0",
    "bufif1", "byte", "case", "casex", "casez",
    "cell", "chandle", "checker", "class", "clocking",
    "cmos", "config", "const", "constraint", "context",
    "continue", "cover", "covergroup", "coverpoint", "cross",
    "deassign", "default", "defparam", "design", "disable",
    "dist", "do", "edge", "else", "end",
    "endcase", "endchecker", "endclass", "endclocking", "endconfig",
    "endfunction", "endgenerate", "endgroup", "endinterface", "endmodule",
    "endpackage", "endprimitive", "endprogram", "endproperty", "endsequence",
    "endspecify", "endtable", "endtask", "enum", "event",
    "eventually", "expect", "export", "extends", "extern",
    "final", "first_match", "for", "force", "foreach",
    "forever", "fork", "forkjoin", "function", "generate",
    "genvar", "global", "highz0", "highz1", "if",
    "iff", "ifnone", "ignore_bins", "illegal_bins", "implements",
    "implies", "import", "incdir", "include", "initial",
    "inout", "input", "inside", "instance", "int",
    "integer", "interconnect", "interface", "intersect", "join",
    "join_any", "join_none", "large", "let", "liblist",
    "library", "local", "localparam", "logic", "longint",
    "macromodule", "matches", "medium", "modport", "module",
    "nand", "negedge", "nettype", "new", "nexttime",
    "nmos", "nor", "noshowcancelled", "not", "notif0",
    "notif1", "null", "or", "output", "package",
    "packed", "parameter", "pmos", "posedge", "primitive",
    "priority", "program", "property", "protected", "pull0",
    "pull1", "pulldown", "pullup", "pulsestyle_ondetect", "pulsestyle_onevent",
    "pure", "rand", "randc", "randcase", "randsequence",
    "rcmos", "real", "realtime", "ref", "reg",
    "reject_on", "release", "      repeat", "restrict", "return",
    "rnmos", "rpmos", "rtran", "rtranif0", "rtranif1",
    "s_always", "s_eventually", "s_nexttime", "s_until", "s_until_with",
    "scalared", "sequence", "shortint", "shortreal", "showcancelled",
    "signed", "small", "soft", "solve", "specify",
    "specparam", "static", "string", "strong", "strong0",
    "strong1", "struct", "super", "supply0", "supply1",
    "sync_accept_on", "sync_reject_on", "table", "tagged", "task",
    "this", "throughout", "time", "timeprecision", "timeunit",
    "tran", "tranif0", "tranif1", "tri", "tri0",
    "tri1", "triand", "trior", "trireg", "type",
    "typedef", "       union", "unique", "unique0", "unsigned",
    "until", "until_with", "untyped", "use", "   uwire",
    "var", "vectored", "virtual", "void", "wait",
    "wait_order", "wand", "weak", "weak0", "weak1",
    "while", "wildcard", "wire", "with", "within",
    "wor", "xnor", "xor"
}

(***************************************************************************)
(* Signals.  A signal is an identity with the attributes the back end      *)
(* reads: duid (creation order), width, signedness, reset value, the       *)
(* variable flag and its name.                                             *)
(***************************************************************************)
Sig(id, duid, nbits, signed, variable, reset) ==
    [id |-> id, duid |-> duid, nbits |-> nbits, signed |-> signed,
     variable |-> variable, reset |-> reset, name |-> id, fixed |-> FALSE]

SigA == Sig("a", 1, 1, FALSE, FALSE, 0)
SigB == Sig("b", 2, 4, FALSE, FALSE, 0)
SigC == Sig("c", 3, 4, TRUE,  FALSE, 0)

SigX == Sig("x", 4, 1, FALSE, FALSE, 0)
SigY == Sig("y", 5, 4, FALSE, FALSE, 5)
SigZ == Sig("z", 6, 4, TRUE,  FALSE, -1)
SigV == Sig("v", 7, 4, FALSE, TRUE,  0)

SigQ  == Sig("q", 8, 4, FALSE, FALSE, 0)
SigIO == Sig("io", 9, 1, FALSE, FALSE, 0)

ExprSignals == {SigA, SigB, SigC}
StmtSignals == {SigA, SigB, SigC, SigX, SigY, SigZ, SigV}

\* sorted(S, key=lambda x: x.duid)
RECURSIVE SortByDuid(_)
SortByDuid(S) ==
    IF S = {} THEN <<>>
    ELSE LET m == CHOOSE s \in S : \A t \in S : s.duid <= t.duid
         IN  <<m>> \o SortByDuid(S \ {m})

(***************************************************************************)
(* The namespace (migen.fhdl.namer).  Namespace.get_name gives a signal    *)
(* its name, suffixed "_<n>" when n earlier signals (or a reserved         *)
(* keyword, which starts the count at 1) already use that name.  `order`   *)
(* is the order in which get_name first sees the signals.                  *)
(***************************************************************************)
SuffixedName(name, n) == IF n = 0 THEN name ELSE name \o "_" \o ToString(n)

\* One first call of get_name: the signal gets the count of its name, and
\* the count of the name goes up.  The counts start at 1 for a reserved
\* keyword (Namespace.__init__: counts = {k: 1 for k in reserved_keywords})
\* and at 0 for any other name.
NsName(ns, s) ==
    LET n == IF s.name \in DOMAIN ns.counts THEN ns.counts[s.name]
             ELSE IF s.name \in ns.reserved THEN 1 ELSE 0
    IN  [names    |-> ns.names @@ (s.id :> SuffixedName(s.name, n)),
         counts   |-> (s.name :> n + 1) @@ ns.counts,
         reserved |-> ns.reserved]

RECURSIVE NsAssign(_, _)
NsAssign(order, ns) ==
    IF order = <<>> THEN ns ELSE NsAssign(Tail(order), NsName(ns, Head(order)))

build_namespace(order, reserved_keywords) ==
    NsAssign(order, [names |-> <<>>, counts |-> <<>>, reserved |-> reserved_keywords])

get_name(ns, s) == ns.names[s.id]

\* The order in which the signals of a conversion are first named: those
\* with a fixed name (ports included, which convert names from their
\* backtrace) when the namespace is built, the others as _print_module
\* declares them.
NameOrder(sigs, ios) ==
    LET first == {sg \in sigs \cup ios : sg.fixed \/ sg \in ios}
    IN  SortByDuid(first) \o SortByDuid((sigs \cup ios) \ first)

ExprNs == build_namespace(NameOrder(ExprSignals, {}),
                          _ieee_1800_2017_verilog_reserved_keywords)

(***************************************************************************)
(* Expressions of the IR (migen.fhdl.structure).                           *)
(***************************************************************************)
Constant(value, nbits, signed) ==
    [kind |-> "Constant", value |-> value, nbits |-> nbits, signed |-> signed]

Signal(sig) == [kind |-> "Signal", sig |-> sig]

Operator(op, operands) == [kind |-> "Operator", op |-> op, operands |-> operands]

Slice(value, start, stop) ==
    [kind |-> "Slice", value |-> value, start |-> start, stop |-> stop]

Cat(l) == [kind |-> "Cat", l |-> l]

Replicate(v, n) == [kind |-> "Replicate", v |-> v, n |-> n]

\* A node the back end does not know (a _Part that was never lowered).
Part(value) == [kind |-> "_Part", value |-> value]

ResetOf(sig) == Constant(sig.reset, sig.nbits, sig.signed)

(***************************************************************************)
(* Results of the printers: the text and the signedness, or the exception  *)
(* that was raised.                                                        *)
(***************************************************************************)
Ok(text, signed) == [ok |-> TRUE, text |-> text, signed |-> signed, err |-> ""]

Raise(err) == [ok |-> FALSE, text |-> <<>>, signed |-> FALSE, err |-> err]

\* The first exception among results evaluated in order, if any.
FirstError(rs) ==
    LET bad == {i \in 1..Len(rs) : ~rs[i].ok}
    IN  rs[CHOOSE i \in bad : \A j \in bad : i <= j]

AllOk(rs) == \A i \in 1..Len(rs) : rs[i].ok

UNARY == 1
BINARY == 2
TERNARY == 3

\* _print_constant
PrintConstant(n) ==
    Ok((IF n.value >= 0 THEN <<>> ELSE <<"-">>)
       \o <<ToString(n.nbits), "'d", ToString(Abs(n.value))>>, n.signed)

\* to_signed, the helper of _print_operator: f"$signed({{1'd0 {r}}}))"
to_signed(r) == <<"$signed", "(", "{", "1'd0", " ">> \o r \o <<"}", ")", ")">>

\* The unary branch of _print_operator, given the printed operand.
PrintUnary(operator, p1) ==
    IF operator = "-"
    THEN Ok(<<"-">> \o (IF p1.signed THEN p1.text ELSE to_signed(p1.text)), TRUE)
    ELSE Ok(<<operator>> \o p1.text, p1.signed)

\* PrintBinary without the exception for the two shift operators.
PrintBinary_ShiftsConverted(operator, p1, p2) ==
    LET r1 == IF p2.signed /\ ~p1.signed THEN to_signed(p1.text) ELSE p1.text
        r2 == IF p1.signed /\ ~p2.signed THEN to_signed(p2.text) ELSE p2.text
    IN  Ok(r1 \o <<" ", operator, " ">> \o r2, p1.signed \/ p2.signed)

\* The binary branch of _print_operator, given the printed operands.
PrintBinary(operator, p1, p2) ==
    LET conv == operator \notin {"<<<", ">>>"}
        r1 == IF conv /\ p2.signed /\ ~p1.signed THEN to_signed(p1.text) ELSE p1.text
        r2 == IF conv /\ p1.signed /\ ~p2.signed THEN to_signed(p2.text) ELSE p2.text
    IN  Ok(r1 \o <<" ", operator, " ">> \o r2, p1.signed \/ p2.signed)

\* The ternary branch of _print_operator, given the printed operands.
PrintTernary(operator, p1, p2, p3) ==
    IF operator # "m" THEN Raise("AssertionError")
    ELSE LET r3 == IF p2.signed /\ ~p3.signed THEN to_signed(p3.text) ELSE p3.text
             r2 == IF p3.signed /\ ~p2.signed THEN to_signed(p2.text) ELSE p2.text
         IN  Ok(p1.text \o <<" ", "?", " ">> \o r2 \o <<" ", ":", " ">> \o r3,
                p2.signed \/ p3.signed)

\* SliceRange with the single-index form dropped.
SliceRange_AlwaysRange(n) ==
    IF n.value.kind = "Signal" /\ n.value.sig.nbits = 1
    THEN <<>>
    ELSE <<"[", ToString(n.stop - 1), ":", ToString(n.start), "]">>

\* The slice suffix _print_slice computes before it renders the value.
SliceRange(n) ==
    IF n.value.kind = "Signal" /\ n.value.sig.nbits = 1
    THEN <<>>
    ELSE IF n.stop - n.start > 1
         THEN <<"[", ToString(n.stop - 1), ":", ToString(n.start), "]">>
         ELSE <<"[", ToString(n.start), "]">>

RECURSIVE _print_expression(_, _)

_print_operator(ns, n) ==
    LET arity == Len(n.operands)
    IN  IF arity \notin {UNARY, BINARY, TERNARY} THEN Raise("AssertionError")
        ELSE IF arity = TERNARY /\ n.op # "m" THEN Raise("AssertionError")
        ELSE LET ps == [i \in 1..arity |-> _print_expression(ns, n.operands[i])]
                 r  == IF arity = UNARY THEN PrintUnary(n.op, ps[1])
                       ELSE IF arity = BINARY THEN PrintBinary(n.op, ps[1], ps[2])
                       ELSE PrintTernary(n.op, ps[1], ps[2], ps[3])
             IN  IF ~AllOk(ps) THEN FirstError(ps)
                 ELSE Ok(<<"(">> \o r.text \o <<")">>, r.signed)

_print_slice(ns, n) ==
    IF ~(n.stop - n.start >= 1) THEN Raise("AssertionError")
    ELSE IF n.value.kind = "Signal" /\ n.value.sig.nbits = 1 /\ n.start # 0
    THEN Raise("AssertionError")
    ELSE LET p == _print_expression(ns, n.value)
         IN  IF ~p.ok THEN p ELSE Ok(p.text \o SliceRange(n), p.signed)

_print_cat(ns, n) ==
    LET rev == Reverse(n.l)
        ps  == [i \in 1..Len(rev) |-> _print_expression(ns, rev[i])]
    IN  IF ~AllOk(ps) THEN FirstError(ps)
        ELSE Ok(<<"{">> \o JoinWith(<<",", " ">>, [i \in 1..Len(ps) |-> ps[i].text])
                \o <<"}">>, FALSE)

_print_replicate(ns, n) ==
    LET p == _print_expression(ns, n.v)
    IN  IF ~p.ok THEN p
        ELSE Ok(<<"{", ToString(n.n), "{">> \o p.text \o <<"}", "}">>, FALSE)

_print_expression(ns, n) ==
    CASE n.kind = "Constant"  -> PrintConstant(n)
      [] n.kind = "Signal"    -> Ok(<<get_name(ns, n.sig)>>, n.sig.signed)
      [] n.kind = "Operator"  -> _print_operator(ns, n)
      [] n.kind = "Slice"     -> _print_slice(ns, n)
      [] n.kind = "Cat"       -> _print_cat(ns, n)
      [] n.kind = "Replicate" -> _print_replicate(ns, n)
      [] OTHER                -> Raise("TypeError")

(***************************************************************************)
(* Statements of the IR and _print_node.  A block is a sequence of         *)
(* statements; the arm map of a Case is a sequence of <<key, block>> pairs *)
(* in insertion order, with pairwise different keys, a key being a         *)
(* Constant or the string "default" (DefaultKey).                          *)
(***************************************************************************)
Assign(l, r) == [kind |-> "_Assign", l |-> l, r |-> r]

If(cond, t, f) == [kind |-> "If", cond |-> cond, t |-> t, f |-> f]

Case(test, cases) == [kind |-> "Case", test |-> test, cases |-> cases]

Display(str, args) == [kind |-> "Display", s |-> str, args |-> args]

Finish == [kind |-> "Finish"]

DefaultKey == [kind |-> "default"]

\* Text of a statement: the lines, or the exception raised.
OkLines(lines) == [ok |-> TRUE, lines |-> lines, err |-> ""]

RaiseLines(err) == [ok |-> FALSE, lines |-> <<>>, err |-> err]

\* The texts of results produced one after the other, joined.
ConcatLines(rs) ==
    IF AllOk(rs) THEN OkLines(Flatten([i \in 1..Len(rs) |-> rs[i].lines]))
    ELSE RaiseLines(FirstError(rs).err)

Tabs(level) == [i \in 1..level |-> "\t"]

\* list_targets of an expression on the left of an assignment.
RECURSIVE ExprTargets(_)
ExprTargets(e) ==
    CASE e.kind = "Signal" -> {e.sig}
      [] e.kind = "Slice"  -> ExprTargets(e.value)
      [] e.kind = "Cat"    -> UNION {ExprTargets(e.l[i]) : i \in 1..Len(e.l)}
      [] OTHER             -> {}

\* list_targets of a statement, and of a block.
RECURSIVE list_targets(_)
RECURSIVE BlockTargets(_)
list_targets(n) ==
    CASE n.kind = "_Assign" -> ExprTargets(n.l)
      [] n.kind = "If"      -> BlockTargets(n.t) \cup BlockTargets(n.f)
      [] n.kind = "Case"    -> UNION {BlockTargets(n.cases[i][2]) : i \in 1..Len(n.cases)}
      [] OTHER              -> {}

BlockTargets(b) == UNION {list_targets(b[i]) : i \in 1..Len(b)}

\* is_variable: "True" or "False", or "TypeError" when it raises.
RECURSIVE is_variable(_)
is_variable(e) ==
    CASE e.kind = "Signal" -> IF e.sig.variable THEN "True" ELSE "False"
      [] e.kind = "Slice"  -> is_variable(e.value)
      [] e.kind = "Cat"    ->
            LET vs == {is_variable(e.l[i]) : i \in 1..Len(e.l)}
            IN  IF Cardinality(vs) = 1 THEN CHOOSE v \in vs : TRUE ELSE "TypeError"
      [] OTHER             -> "TypeError"

_AT_BLOCKING == 0
_AT_NONBLOCKING == 1
_AT_SIGNAL == 2

NoFilter == [id |-> "None"]

\* The assignment operator _print_node chooses, or "TypeError".
AssignmentOperator(at, l) ==
    IF at = _AT_BLOCKING THEN " = "
    ELSE IF at = _AT_NONBLOCKING THEN " <= "
    ELSE LET v == is_variable(l)
         IN  IF v = "TypeError" THEN "TypeError"
             ELSE IF v = "True" THEN " = " ELSE " <= "

\* SortArms without the sort: the arms in the iteration order of the map.
SortArms_Unsorted(css) == css

\* The constant-keyed arms, sorted(css, key=lambda x: x[0].value): stable.
RECURSIVE SortArms(_)
SortArms(css) ==
    IF css = <<>> THEN <<>>
    ELSE LET i == CHOOSE i \in 1..Len(css) :
                    /\ \A j \in 1..Len(css) : css[i][1].value <= css[j][1].value
                    /\ \A j \in 1..(i - 1) : css[j][1].value # css[i][1].value
             rest == [j \in 1..(Len(css) - 1) |-> IF j < i THEN css[j] ELSE css[j + 1]]
         IN  <<css[i]>> \o SortArms(rest)

ConstantArms(cases) == SelectSeq(cases, LAMBDA c : c[1].kind = "Constant")

DefaultArms(cases) == SelectSeq(cases, LAMBDA c : c[1] = DefaultKey)

PrintDisplay(ns, level, n) ==
    LET arg(i) == IF n.args[i].kind = "Signal"
                  THEN <<",", " ", get_name(ns, n.args[i].sig)>>
                  ELSE <<",", " ", ToString(n.args[i].value)>>
    IN  OkLines(<<Tabs(level) \o <<"$display", "(", "\"", n.s, "\"">>
                  \o Flatten([i \in 1..Len(n.args) |-> arg(i)]) \o <<")", ";\n">>>>)

RECURSIVE _print_node(_, _, _, _, _)
RECURSIVE PrintBlock(_, _, _, _, _)

PrintAssign(ns, at, level, n) ==
    LET op == AssignmentOperator(at, n.l)
        l  == _print_expression(ns, n.l)
        r  == _print_expression(ns, n.r)
    IN  IF op = "TypeError" THEN RaiseLines("TypeError")
        ELSE IF ~l.ok THEN RaiseLines(l.err)
        ELSE IF ~r.ok THEN RaiseLines(r.err)
        ELSE OkLines(<<Tabs(level) \o l.text \o <<op>> \o r.text \o <<";\n">>>>)

PrintIf(ns, at, level, n, tf) ==
    LET c == _print_expression(ns, n.cond)
        head == OkLines(<<Tabs(level) \o <<"if", " ", "(">> \o c.text \o <<")", " ", "begin\n">>>>)
        els  == OkLines(<<Tabs(level) \o <<"end", " ", "else", " ", "begin\n">>>>)
        end  == OkLines(<<Tabs(level) \o <<"end\n">>>>)
    IN  IF ~c.ok THEN RaiseLines(c.err)
        ELSE IF n.f # <<>>
        THEN ConcatLines(<<head, PrintBlock(ns, at, level + 1, n.t, tf),
                           els, PrintBlock(ns, at, level + 1, n.f, tf), end>>)
        ELSE ConcatLines(<<head, PrintBlock(ns, at, level + 1, n.t, tf), end>>)

PrintArm(ns, at, level, key, stmts, tf) ==
    LET k == IF key = DefaultKey THEN Ok(<<"default">>, FALSE)
             ELSE _print_expression(ns, key)
    IN  IF ~k.ok THEN RaiseLines(k.err)
        ELSE ConcatLines(<<
               OkLines(<<Tabs(level + 1) \o k.text \o <<":", " ", "begin\n">>>>),
               PrintBlock(ns, at, level + 2, stmts, tf),
               OkLines(<<Tabs(level + 1) \o <<"end\n">>>>)>>)

PrintCase(ns, at, level, n, tf) ==
    IF n.cases = <<>> THEN OkLines(<<>>)
    ELSE LET t    == _print_expression(ns, n.test)
             arms == SortArms(ConstantArms(n.cases)) \o DefaultArms(n.cases)
         IN  IF ~t.ok THEN RaiseLines(t.err)
             ELSE ConcatLines(
                    <<OkLines(<<Tabs(level) \o <<"case", " ", "(">> \o t.text \o <<")", "\n">>>>)>>
                    \o [i \in 1..Len(arms) |->
                          PrintArm(ns, at, level, arms[i][1], arms[i][2], tf)]
                    \o <<OkLines(<<Tabs(level) \o <<"endcase\n">>>>)>>)

_print_node(ns, at, level, n, tf) ==
    IF tf # NoFilter /\ tf \notin list_targets(n) THEN OkLines(<<>>)
    ELSE CASE n.kind = "_Assign" -> PrintAssign(ns, at, level, n)
           [] n.kind = "If"      -> PrintIf(ns, at, level, n, tf)
           [] n.kind = "Case"    -> PrintCase(ns, at, level, n, tf)
           [] n.kind = "Display" -> PrintDisplay(ns, level, n)
           [] n.kind = "Finish"  -> OkLines(<<Tabs(level) \o <<"$finish;\n">>>>)
           [] OTHER              -> RaiseLines("TypeError")

\* _print_node of a list of statements (the Iterable branch).
PrintBlock(ns, at, level, b, tf) ==
    IF tf # NoFilter /\ tf \notin BlockTargets(b) THEN OkLines(<<>>)
    ELSE ConcatLines([i \in 1..Len(b) |-> _print_node(ns, at, level, b[i], tf)])

(***************************************************************************)
(* Clock domains and _print_synchronous_logic.                             *)
(***************************************************************************)
DomainNames == {"por", "sys", "sys2"}

\* The code points of the domain names, for Python's string comparison.
CodePoints(name) ==
    CASE name = "por"  -> <<112, 111, 114>>
      [] name = "sys"  -> <<115, 121, 115>>
      [] name = "sys2" -> <<115, 121, 115, 50>>

\* Python's a < b on strings.
StrLess(a, b) ==
    LET x == CodePoints(a)
        y == CodePoints(b)
        diff == {i \in 1..Len(x) : i > Len(y) \/ x[i] # y[i]}
    IN  IF diff = {} THEN Len(x) < Len(y)
        ELSE LET i == CHOOSE i \in diff : \A j \in diff : i <= j
             IN  i <= Len(y) /\ x[i] < y[i]

\* ClockDomain(name), created as the `serial`-th object of its kind: its clk
\* and rst signals are named after the domain.
ClockDomain(name, serial, duid) ==
    [name |-> name,
     clk  |-> [id |-> name \o "_clk#" \o ToString(serial), duid |-> duid, nbits |-> 1,
               signed |-> FALSE, variable |-> FALSE, reset |-> 0,
               name |-> name \o "_clk", fixed |-> TRUE],
     rst  |-> [id |-> name \o "_rst#" \o ToString(serial), duid |-> duid + 1, nbits |-> 1,
               signed |-> FALSE, variable |-> FALSE, reset |-> 0,
               name |-> name \o "_rst", fixed |-> TRUE]]

NoSignal == [id |-> "None"]

\* ClockDomain(name, reset_less=True): no rst signal.
ClockDomainResetLess(name, serial, duid) ==
    [ClockDomain(name, serial, duid) EXCEPT !.rst = NoSignal]

\* f.clock_domains[name]: the domains of that name (none: KeyError).
LookupDomain(cds, name) == SelectSeq(cds, LAMBDA cd : cd.name = name)

HasDomain(cds, name) == LookupDomain(cds, name) # <<>>

\* SortItems without the sort: the iteration order of the mapping.
SortItems_Unsorted(items) == items

\* sorted(f.sync.items(), key=itemgetter(0))
RECURSIVE SortItems(_)
SortItems(items) ==
    IF items = <<>> THEN <<>>
    ELSE LET i == CHOOSE i \in 1..Len(items) :
                    \A j \in 1..Len(items) : j # i => StrLess(items[i][1], items[j][1])
             rest == [j \in 1..(Len(items) - 1) |-> IF j < i THEN items[j] ELSE items[j + 1]]
         IN  <<items[i]>> \o SortItems(rest)

\* SyncAssignmentMode forced to non-blocking.
SyncAssignmentMode_NonBlocking == _AT_NONBLOCKING

\* The mode in which _print_synchronous_logic renders the statements.
SyncAssignmentMode == _AT_SIGNAL

\* One pass of the loop of _print_synchronous_logic.
PrintSyncBlock(cds, ns, k, v) ==
    IF ~HasDomain(cds, k) THEN RaiseLines("KeyError")
    ELSE ConcatLines(<<
           OkLines(<< <<"always", " ", "@", "(", "posedge", " ",
                        get_name(ns, LookupDomain(cds, k)[1].clk), ")", " ", "begin\n">> >>),
           PrintBlock(ns, SyncAssignmentMode, 1, v, NoFilter),
           OkLines(<< <<"end\n">>, <<"\n">> >>)>>)

_print_synchronous_logic(fsync, cds, ns) ==
    LET items == SortItems(fsync)
    IN  ConcatLines([i \in 1..Len(items) |->
                        PrintSyncBlock(cds, ns, items[i][1], items[i][2])])

(***************************************************************************)
(* Fragments.  A fragment holds the combinatorial statements, the          *)
(* synchronous mapping, the clock-domain registry and the specials; a      *)
(* special is known by its kind, its duid and its input, output and inout  *)
(* pins.                                                                   *)
(***************************************************************************)
Fragment(comb, fsync, cds, specials) ==
    [comb |-> comb, sync |-> fsync, clock_domains |-> cds, specials |-> specials]

Special(kind, duid, ins, outs, inouts) ==
    [kind |-> kind, duid |-> duid, ins |-> ins, outs |-> outs, inouts |-> inouts]

\* list_signals of an expression, a statement, a block and a fragment.
RECURSIVE ExprSigs(_)
ExprSigs(e) ==
    CASE e.kind = "Signal"    -> {e.sig}
      [] e.kind = "Operator"  -> UNION {ExprSigs(e.operands[i]) : i \in 1..Len(e.operands)}
      [] e.kind = "Slice"     -> ExprSigs(e.value)
      [] e.kind = "Cat"       -> UNION {ExprSigs(e.l[i]) : i \in 1..Len(e.l)}
      [] e.kind = "Replicate" -> ExprSigs(e.v)
      [] OTHER                -> {}

RECURSIVE StmtSigs(_)
RECURSIVE BlockSigs(_)
StmtSigs(n) ==
    CASE n.kind = "_Assign" -> ExprSigs(n.l) \cup ExprSigs(n.r)
      [] n.kind = "If"      -> ExprSigs(n.cond) \cup BlockSigs(n.t) \cup BlockSigs(n.f)
      [] n.kind = "Case"    ->
            ExprSigs(n.test) \cup UNION {BlockSigs(n.cases[i][2]) : i \in 1..Len(n.cases)}
      [] n.kind = "Display" -> UNION {ExprSigs(n.args[i]) : i \in 1..Len(n.args)}
      [] OTHER              -> {}

BlockSigs(b) == UNION {StmtSigs(b[i]) : i \in 1..Len(b)}

SyncBlocks(f) == Flatten([i \in 1..Len(f.sync) |-> f.sync[i][2]])

list_signals(f) == BlockSigs(f.comb) \cup BlockSigs(SyncBlocks(f))

FragmentTargets(f) == BlockTargets(f.comb) \cup BlockTargets(SyncBlocks(f))

list_special_ios(f, ins, outs, inouts) ==
    UNION {(IF ins THEN sp.ins ELSE {}) \cup (IF outs THEN sp.outs ELSE {})
           \cup (IF inouts THEN sp.inouts ELSE {}) : sp \in f.specials}

\* The loop of group_by_targets over the groups found so far: the groups
\* that share a target with the statement are merged into its group.
RECURSIVE MergeGroups(_, _, _, _)
MergeGroups(old, targets, group, kept) ==
    IF old = <<>> THEN Append(kept, [targets |-> targets, group |-> group])
    ELSE LET g == Head(old)
         IN  IF targets \cap g.targets = {}
             THEN MergeGroups(Tail(old), targets, group, Append(kept, g))
             ELSE MergeGroups(Tail(old), targets \cup g.targets, group \cup g.group, kept)

RECURSIVE GroupFrom(_, _, _, _)
GroupFrom(sl, i, groups, seen) ==
    IF i > Len(sl) THEN groups
    ELSE LET targets == list_targets(sl[i])
         IN  GroupFrom(sl, i + 1,
                       IF targets \cap seen = {}
                       THEN Append(groups, [targets |-> targets, group |-> {i}])
                       ELSE MergeGroups(groups, targets, {i}, <<>>),
                       seen \cup targets)

\* The members of a group in the order of the statement list.
RECURSIVE InOrder(_, _)
InOrder(sl, idx) ==
    IF idx = {} THEN <<>>
    ELSE LET i == CHOOSE i \in idx : \A j \in idx : i <= j
         IN  <<sl[i]>> \o InOrder(sl, idx \ {i})

\* group_by_targets: <<targets, statements>> pairs.
group_by_targets(sl) ==
    LET gs == GroupFrom(sl, 1, <<>>, {})
    IN  [k \in 1..Len(gs) |-> <<gs[k].targets, InOrder(sl, gs[k].group)>>]

IsSingleAssign(g) == Len(g[2]) = 1 /\ g[2][1].kind = "_Assign"

\* _list_comb_wires without the test len(g[1]) == 1.
_list_comb_wires_AnyAssign(f) ==
    LET groups == group_by_targets(f.comb)
    IN  UNION {groups[k][1] : k \in {j \in 1..Len(groups) : groups[j][2][1].kind = "_Assign"}}

_list_comb_wires(f) ==
    LET groups == group_by_targets(f.comb)
    IN  UNION {groups[k][1] : k \in {j \in 1..Len(groups) : IsSingleAssign(groups[j])}}

(***************************************************************************)
(* _print_signal and _print_module.                                        *)
(***************************************************************************)
_print_signal(ns, sg) ==
    (IF ~sg.signed THEN <<>> ELSE <<"signed ">>)
    \o (IF sg.nbits <= 1 THEN <<>> ELSE <<"[", ToString(sg.nbits - 1), ":0] ">>)
    \o <<get_name(ns, sg)>>

\* The direction and storage kind _print_module gives a port.
PortKind(f, sg) ==
    LET special_outs == list_special_ios(f, FALSE, TRUE, TRUE)
        inouts       == list_special_ios(f, FALSE, FALSE, TRUE)
        targets      == FragmentTargets(f) \cup special_outs
        wires        == _list_comb_wires(f) \cup special_outs
    IN  IF sg \in inouts THEN <<"inout", "wire">>
        ELSE IF sg \in targets
        THEN (IF sg \in wires THEN <<"output", "wire">> ELSE <<"output", "reg">>)
        ELSE <<"input", "wire">>

PortLine(f, ns, sg, last) ==
    <<"\t", PortKind(f, sg)[1], " ", PortKind(f, sg)[2], " ">> \o _print_signal(ns, sg)
    \o (IF last THEN <<"\n">> ELSE <<",\n">>)

\* The declaration of a signal that is no port.
DeclLine(f, ns, sg, reg_initialization) ==
    LET wires == _list_comb_wires(f) \cup list_special_ios(f, FALSE, TRUE, TRUE)
    IN  IF sg \in wires THEN <<"wire", " ">> \o _print_signal(ns, sg) \o <<";\n">>
        ELSE IF reg_initialization
        THEN <<"reg", " ">> \o _print_signal(ns, sg) \o <<" = ">>
             \o _print_expression(ns, ResetOf(sg)).text \o <<";\n">>
        ELSE <<"reg", " ">> \o _print_signal(ns, sg) \o <<";\n">>

\* The signals of the fragment have no attributes: _print_attribute gives "".
_print_module(f, ios, name, ns, reg_initialization) ==
    LET sigs  == list_signals(f) \cup list_special_ios(f, TRUE, TRUE, TRUE)
        ports == SortByDuid(ios)
        decls == SortByDuid(sigs \ ios)
    IN  << <<"module", " ", name, "(\n">> >>
        \o [i \in 1..Len(ports) |-> PortLine(f, ns, ports[i], i = Len(ports))]
        \o (IF ports = <<>> THEN << <<"\n">> >> ELSE <<>>)
        \o << <<");\n">>, <<"\n">> >>
        \o [i \in 1..Len(decls) |-> DeclLine(f, ns, decls[i], reg_initialization)]
        \o << <<"\n">> >>

(***************************************************************************)
(* _print_combinatorial_logic_synth.  `iter` stands for the iteration      *)
(* order of Python sets of signals: a set is visited in the order in which *)
(* its members come in iter.                                               *)
(***************************************************************************)
SetIteration(S, iter) == SelectSeq(iter, LAMBDA sg : sg \in S)

\* "\t" + ns.get_name(t) + " = " + _print_expression(ns, t.reset)[0] + ";\n"
DefaultLine(ns, t, blocking_assign) ==
    <<"\t", get_name(ns, t), IF blocking_assign THEN " = " ELSE " <= ">>
    \o _print_expression(ns, ResetOf(t)).text \o <<";\n">>

\* "assign " + _print_node(ns, _AT_BLOCKING, 0, statement)
PrintContinuousAssign(ns, st) ==
    LET r == _print_node(ns, _AT_BLOCKING, 0, st, NoFilter)
    IN  IF ~r.ok THEN r ELSE OkLines(<< <<"assign", " ">> \o r.lines[1] >>)

\* The always block with the statements of the group ahead of the defaults.
PrintSynthBlock_BodyFirst(ns, g, blocking_assign, iter) ==
    LET ts == SetIteration(g[1], iter)
    IN  ConcatLines(<<
          OkLines(<< <<"always", " ", "@", "(", "*", ")", " ", "begin\n">> >>),
          PrintBlock(ns, IF blocking_assign THEN _AT_BLOCKING ELSE _AT_NONBLOCKING,
                     1, g[2], NoFilter),
          OkLines([i \in 1..Len(ts) |-> DefaultLine(ns, ts[i], blocking_assign)]),
          OkLines(<< <<"end\n">> >>)>>)

\* The always block of a group of the synthesis strategy.
PrintSynthBlock(ns, g, blocking_assign, iter) ==
    LET ts == SetIteration(g[1], iter)
    IN  ConcatLines(<<
          OkLines(<< <<"always", " ", "@", "(", "*", ")", " ", "begin\n">> >>),
          OkLines([i \in 1..Len(ts) |-> DefaultLine(ns, ts[i], blocking_assign)]),
          PrintBlock(ns, IF blocking_assign THEN _AT_BLOCKING ELSE _AT_NONBLOCKING,
                     1, g[2], NoFilter),
          OkLines(<< <<"end\n">> >>)>>)

_print_combinatorial_logic_synth(f, ns, blocking_assign, iter) ==
    LET groups == group_by_targets(f.comb)
    IN  ConcatLines(
          [k \in 1..Len(groups) |->
              IF IsSingleAssign(groups[k]) THEN PrintContinuousAssign(ns, groups[k][2][1])
              ELSE PrintSynthBlock(ns, groups[k], blocking_assign, iter)]
          \o <<OkLines(<< <<"\n">> >>)>>)

(***************************************************************************)
(* _print_combinatorial_logic_sim.                                         *)
(***************************************************************************)
\* A Signal(name_override=name) made while printing; `serial` tells the
\* objects of one name apart.
DummySignal(name, serial) ==
    [id |-> name \o "#" \o ToString(serial), duid |-> 1000 + serial, nbits |-> 1,
     signed |-> FALSE, variable |-> FALSE, reset |-> 0, name |-> name, fixed |-> TRUE]

\* target_stmt_map[t].append(statement)
MapAppend(map, t, st) ==
    IF \E i \in 1..Len(map) : map[i][1] = t
    THEN [i \in 1..Len(map) |-> IF map[i][1] = t THEN <<t, Append(map[i][2], st)>> ELSE map[i]]
    ELSE Append(map, <<t, <<st>>>>)

RECURSIVE MapAppendAll(_, _, _)
MapAppendAll(map, ts, st) ==
    IF ts = <<>> THEN map ELSE MapAppendAll(MapAppend(map, Head(ts), st), Tail(ts), st)

\* target_stmt_map: <<target, statements>> pairs in insertion order.
RECURSIVE TargetStmtMap(_, _, _, _)
TargetStmtMap(sl, i, map, iter) ==
    IF i > Len(sl) THEN map
    ELSE TargetStmtMap(sl, i + 1,
                       MapAppendAll(map, SetIteration(list_targets(sl[i]), iter), sl[i]),
                       iter)

syn_off == <<"// synthesis translate_off\n">>
syn_on  == <<"// synthesis translate_on\n">>

\* The always block of one target of the simulation strategy; ns names
\* dummy_d and dummy_s already.
PrintSimBlock(ns, n, t, stmts, display_run, dummy_signal, blocking_assign, dummy_s, dummy_d) ==
    ConcatLines(<<
      OkLines(IF dummy_signal
              THEN << <<"\n">>, syn_off, <<"reg", " ">> \o _print_signal(ns, dummy_d) \o <<";\n">>,
                      syn_on >>
              ELSE <<>>),
      OkLines(<< <<"always", " ", "@", "(", "*", ")", " ", "begin\n">> >>),
      OkLines(IF display_run
              THEN << <<"\t", "$display", "(", "\"", "Running comb block #", ToString(n),
                        "\"", ")", ";\n">> >>
              ELSE <<>>),
      OkLines(<< DefaultLine(ns, t, blocking_assign) >>),
      PrintBlock(ns, IF blocking_assign THEN _AT_BLOCKING ELSE _AT_NONBLOCKING, 1, stmts, t),
      OkLines(IF dummy_signal
              THEN << syn_off,
                      <<"\t", get_name(ns, dummy_d), " = ", get_name(ns, dummy_s), ";\n">>,
                      syn_on >>
              ELSE <<>>),
      OkLines(<< <<"end\n">> >>)>>)

\* The loop over target_stmt_map.items(), from the n-th entry on; the
\* result carries the namespace, which grows by one dummy_d per block.
RECURSIVE PrintSimFrom(_, _, _, _, _, _, _)
PrintSimFrom(map, n, ns, display_run, dummy_signal, blocking_assign, dummy_s) ==
    IF n >= Len(map) THEN [out |-> OkLines(<<>>), ns |-> ns]
    ELSE LET t     == map[n + 1][1]
             stmts == map[n + 1][2]
             single == Len(stmts) = 1 /\ stmts[1].kind = "_Assign"
             dummy_d == DummySignal("dummy_d", n)
             ns1   == IF ~single /\ dummy_signal THEN NsName(ns, dummy_d) ELSE ns
             here  == IF single THEN PrintContinuousAssign(ns, stmts[1])
                      ELSE PrintSimBlock(ns1, n, t, stmts, display_run, dummy_signal,
                                         blocking_assign, dummy_s, dummy_d)
             rest  == PrintSimFrom(map, n + 1, ns1, display_run, dummy_signal,
                                   blocking_assign, dummy_s)
         IN  [out |-> ConcatLines(<<here, rest.out>>), ns |-> rest.ns]

_print_combinatorial_logic_sim(f, ns, display_run, dummy_signal, blocking_assign, iter) ==
    IF f.comb = <<>> THEN [out |-> OkLines(<< <<"\n">> >>), ns |-> ns]
    ELSE LET dummy_s == DummySignal("dummy_s", 0)
             ns1  == IF dummy_signal THEN NsName(ns, dummy_s) ELSE ns
             head == OkLines(IF dummy_signal
                             THEN << syn_off,
                                     <<"reg", " ">> \o _print_signal(ns1, dummy_s) \o <<";\n">>,
                                     <<"initial", " ", get_name(ns1, dummy_s), " <= ", "1'd0",
                                       ";\n">>,
                                     syn_on >>
                             ELSE <<>>)
             body == PrintSimFrom(TargetStmtMap(f.comb, 1, <<>>, iter), 0, ns1, display_run,
                                  dummy_signal, blocking_assign, dummy_s)
         IN  [out |-> ConcatLines(<<head, body.out, OkLines(<< <<"\n">> >>)>>), ns |-> body.ns]

(***************************************************************************)
(* _print_specials.  `overrides` is the set of kinds of special for which  *)
(* an emitter is found; the text an emitter gives is its own business.     *)
(***************************************************************************)
PrintSpecial(overrides, sp) ==
    IF sp.kind = "Memory" \/ sp.kind \in overrides
    THEN OkLines(<< <<"// ", sp.kind, " ", ToString(sp.duid), "\n">> >>)
    ELSE RaiseLines("NotImplementedError")

RECURSIVE SortSpecials(_)
SortSpecials(S) ==
    IF S = {} THEN <<>>
    ELSE LET m == CHOOSE x \in S : \A y \in S : x.duid <= y.duid
         IN  <<m>> \o SortSpecials(S \ {m})

_print_specials(overrides, specials) ==
    LET sps == SortSpecials(specials)
    IN  ConcatLines([i \in 1..Len(sps) |-> PrintSpecial(overrides, sps[i])])

(***************************************************************************)
(* convert.                                                                *)
(***************************************************************************)
\* sorted(list_clock_domains(f)): the domain names the fragment refers to.
RECURSIVE SortNames(_)
SortNames(S) ==
    IF S = {} THEN <<>>
    ELSE LET m == CHOOSE a \in S : \A b \in S \ {a} : StrLess(a, b)
         IN  <<m>> \o SortNames(S \ {m})

list_clock_domains(f) == {f.sync[i][1] : i \in 1..Len(f.sync)}

\* The message without the list of the domains of the registry.
UnresolvedMessage_NoList(cd_name, cds) ==
    << <<"Unresolved clock domain ", cd_name, ", availables:\n">> >>

\* The message of the exception for an unresolved clock domain.
UnresolvedMessage(cd_name, cds) ==
    << <<"Unresolved clock domain ", cd_name, ", availables:\n">> >>
    \o [i \in 1..Len(cds) |-> <<"- ", cds[i].name, "\n">>]

\* The duid of the first signal of the serial-th clock domain convert makes:
\* a new object, later than every signal of the fragments.
NewDuid(serial) == 100 + 2 * serial

\* The loop "Verify/Create Clock Domains" from the given names on.
RECURSIVE ResolveDomains(_, _, _, _, _)
ResolveDomains(names, cds, ios, create_clock_domains, serial) ==
    IF names = <<>>
    THEN [ok |-> TRUE, err |-> <<>>, clock_domains |-> cds, ios |-> ios, serial |-> serial]
    ELSE IF HasDomain(cds, Head(names))
    THEN ResolveDomains(Tail(names), cds, ios, create_clock_domains, serial)
    ELSE IF create_clock_domains
    THEN LET cd == ClockDomain(Head(names), serial, NewDuid(serial))
         IN  ResolveDomains(Tail(names), Append(cds, cd), ios \cup {cd.clk, cd.rst},
                            create_clock_domains, serial + 1)
    ELSE [ok |-> FALSE, err |-> UnresolvedMessage(Head(names), cds),
          clock_domains |-> cds, ios |-> ios, serial |-> serial]

\* insert_resets followed by the lowering of ResetSignal: the block of a
\* domain that has a reset becomes If(rst, defaults).Else(block).
InsertReset(cd, sl) ==
    LET ts == SortByDuid(BlockTargets(sl))
    IN  << If(Signal(cd.rst),
              [i \in 1..Len(ts) |-> Assign(Signal(ts[i]), ResetOf(ts[i]))], sl) >>

insert_resets(f) ==
    [f EXCEPT !.sync =
        [i \in 1..Len(f.sync) |->
            LET cd == LookupDomain(f.clock_domains, f.sync[i][1])[1]
            IN  IF cd.rst # NoSignal THEN <<f.sync[i][1], InsertReset(cd, f.sync[i][2])>>
                ELSE f.sync[i]]]

\* Names for the signals that are first named while the synchronous
\* section is printed: the clocks of the domains, in the order of the blocks.
RECURSIVE NsEnsure(_, _)
NsEnsure(ns, sgs) ==
    IF sgs = <<>> THEN ns
    ELSE NsEnsure(IF Head(sgs).id \in DOMAIN ns.names THEN ns ELSE NsName(ns, Head(sgs)),
                  Tail(sgs))

SyncClocks(f) ==
    LET names == SortNames(list_clock_domains(f))
    IN  [i \in 1..Len(names) |-> LookupDomain(f.clock_domains, names[i])[1].clk]

generated_banner == << <<"//", " banner\n">> >>

NoDocument ==
    [module |-> <<>>, comb |-> <<>>, sync |-> <<>>, specials |-> <<>>, ns |-> <<>>]

\* The document of a conversion, from its sections: `all` is their text one
\* after the other, or the exception that printing one of them raised.
Assemble(module, comb, syn, spe, ns, all) ==
    [ok |-> all.ok, err |-> IF all.ok THEN <<>> ELSE << <<all.err>> >>,
     module |-> IF all.ok THEN module ELSE <<>>,
     comb |-> IF all.ok THEN comb.out.lines ELSE <<>>,
     sync |-> IF all.ok THEN syn.lines ELSE <<>>,
     specials |-> IF all.ok THEN spe.lines ELSE <<>>,
     ns |-> IF all.ok THEN ns.names ELSE <<>>]

\* The document from its sections, all printed.
Sections(module, comb, syn, spe, ns) ==
    Assemble(module, comb, syn, spe, ns, ConcatLines(<<comb.out, syn, spe>>))

\* verilog += the synchronous logic and the specials, printed with the
\* namespace ns.
PrintRest(f, o, module, comb, ns) ==
    Sections(module, comb,
             _print_synchronous_logic(f.sync, f.clock_domains, ns),
             _print_specials(o.special_overrides, f.specials),
             ns)

\* After the combinatorial logic: the clocks of the synchronous blocks get
\* their names the first time _print_synchronous_logic asks for them.
PrintAfterComb(f, o, module, comb) ==
    PrintRest(f, o, module, comb, NsEnsure(comb.ns, SyncClocks(f)))

\* verilog += the module header and the combinatorial logic, printed with
\* the namespace ns.
PrintFrom(f, ios, o, iter, ns) ==
    PrintAfterComb(f, o, _print_module(f, ios, o.name, ns, o.reg_initialization),
                   IF o.regular_comb
                   THEN [out |-> _print_combinatorial_logic_synth(f, ns, o.blocking_assign,
                                                                  iter),
                         ns |-> ns]
                   ELSE _print_combinatorial_logic_sim(f, ns, o.display_run, o.dummy_signal,
                                                       o.blocking_assign, iter))

\* The fragment lowered: the namespace is built from its signals.
PrintLowered(f, ios, o, iter) ==
    PrintFrom(f, ios, o, iter,
              build_namespace(
                  NameOrder(list_signals(f) \cup list_special_ios(f, TRUE, TRUE, TRUE), ios),
                  _ieee_1800_2017_verilog_reserved_keywords))

\* The document and the namespace of a conversion whose clock domains are
\* resolved: f0 is the fragment with its registry complete.
BuildVerilog(f0, ios, o, iter) == PrintLowered(insert_resets(f0), ios, o, iter)

\* What convert gives back: rd is what the loop over the clock domains
\* left, doc the document built after it.
ConvertResult(rd, doc) ==
    IF ~rd.ok
    THEN [ok |-> FALSE, exception |-> "Exception", err |-> rd.err,
          clock_domains |-> rd.clock_domains, ios |-> rd.ios, serial |-> rd.serial]
         @@ NoDocument
    ELSE [ok |-> doc.ok, exception |-> IF doc.ok THEN "" ELSE doc.err[1][1],
          err |-> doc.err,
          clock_domains |-> rd.clock_domains, ios |-> rd.ios, serial |-> rd.serial,
          module |-> doc.module, comb |-> doc.comb, sync |-> doc.sync,
          specials |-> doc.specials, ns |-> doc.ns]

ConvertResolved(f, o, iter, rd) ==
    ConvertResult(rd, BuildVerilog([f EXCEPT !.clock_domains = rd.clock_domains],
                                   rd.ios, o, iter))

\* convert(f, ios, name, ...): o holds the keyword arguments, serial counts
\* the clock domains made so far, iter is the iteration order of sets.  The
\* result holds the document, or the exception, and what the call did to
\* the registry of the fragment and to the set object it got as ios.
convert(f, ios, o, serial, iter) ==
    ConvertResolved(f, o, iter,
                    ResolveDomains(SortNames(list_clock_domains(f)), f.clock_domains, ios,
                                   o.create_clock_domains, serial))

(***************************************************************************)
(* SpecExpr: the front end builds an expression, bottom up, and the back   *)
(* end renders it.                                                         *)
(***************************************************************************)
NoNode == [kind |-> "none"]
NoRes  == [ok |-> FALSE, text |-> <<>>, signed |-> FALSE, err |-> "not printed"]
NoStmt == [kind |-> "none"]
NoArgs == [at |-> -1, level |-> -1, tf |-> NoFilter]
NoLines == [ok |-> FALSE, lines |-> <<>>, err |-> "not printed"]
NoFragment == [kind |-> "none"]
NoCall == [kind |-> "none"]

Leaves == {Signal(s) : s \in ExprSignals}
          \cup {Constant(-1, 2, TRUE)}

UnaryOps  == {"-", "~"}
BinaryOps == {"+", "<<<", ">>>"}
Selectors == {Signal(SigA), Signal(SigC)}

RECURSIVE Depth(_)
Depth(n) ==
    CASE n.kind = "Operator" ->
            LET ds == {Depth(n.operands[i]) : i \in 1..Len(n.operands)}
            IN  1 + CHOOSE d \in ds : \A e \in ds : e <= d
      [] n.kind = "Slice" -> 1 + Depth(n.value)
      [] n.kind = "Cat" ->
            LET ds == {Depth(n.l[i]) : i \in 1..Len(n.l)}
            IN  1 + CHOOSE d \in ds : \A e \in ds : e <= d
      [] n.kind = "Replicate" -> 1 + Depth(n.v)
      [] n.kind = "_Part" -> 1 + Depth(n.value)
      [] OTHER -> 0

\* value_bits_sign(...)[0] of the values a slice is taken from.
RECURSIVE Width(_)
Width(n) ==
    CASE n.kind = "Signal"    -> n.sig.nbits
      [] n.kind = "Constant"  -> n.nbits
      [] n.kind = "Slice"     -> n.stop - n.start
      [] n.kind = "Cat"       -> Width(n.l[1]) + (IF Len(n.l) > 1 THEN Width(n.l[2]) ELSE 0)
      [] n.kind = "Replicate" -> n.n * Width(n.v)
      [] OTHER                -> 0

Sliceable(n) == n.kind \in {"Signal", "Constant", "Slice", "Cat"}

CanGrow == res = NoRes /\ Depth(node) < MaxDepth

ExprIdle == node = NoNode /\ res = NoRes

NodeIdle == stmt = NoStmt /\ nargs = NoArgs /\ nres = NoLines

SyncIdle == sync = <<>> /\ clock_domains = <<>> /\ sres = NoLines

ConvIdle ==
    frag = NoFragment /\ cargs = NoCall /\ cres = NoCall /\ default_ios = {} /\ ncreated = 0

ExprInit ==
    /\ node \in Leaves
    /\ res = NoRes
    /\ NodeIdle /\ SyncIdle /\ ConvIdle

MkUnary ==
    /\ CanGrow
    /\ \E op \in UnaryOps : node' = Operator(op, <<node>>)
    /\ UNCHANGED <<res, otherThanExpr>>

MkBinary ==
    /\ CanGrow
    /\ \E op \in BinaryOps, other \in Leaves :
          \/ node' = Operator(op, <<node, other>>)
          \/ node' = Operator(op, <<other, node>>)
    /\ UNCHANGED <<res, otherThanExpr>>

MkTernary ==
    /\ CanGrow
    /\ \E sel \in Selectors, other \in Leaves :
          \/ node' = Operator("m", <<sel, node, other>>)
          \/ node' = Operator("m", <<sel, other, node>>)
    /\ UNCHANGED <<res, otherThanExpr>>

\* A slice of the value; the range may reach one bit past the value, as a
\* directly constructed _Slice may.
MkSlice ==
    /\ CanGrow
    /\ Sliceable(node)
    /\ \E start \in 0..Width(node) : \E stop \in (start + 1)..(Width(node) + 1) :
          node' = Slice(node, start, stop)
    /\ UNCHANGED <<res, otherThanExpr>>

MkCat ==
    /\ CanGrow
    /\ \/ node' = Cat(<<node>>)
       \/ \E other \in Leaves : node' = Cat(<<node, other>>) \/ node' = Cat(<<other, node>>)
    /\ UNCHANGED <<res, otherThanExpr>>

MkReplicate ==
    /\ CanGrow
    /\ node' = Replicate(node, 2)
    /\ UNCHANGED <<res, otherThanExpr>>

MkPart ==
    /\ CanGrow
    /\ node.kind = "Signal"
    /\ node' = Part(node)
    /\ UNCHANGED <<res, otherThanExpr>>

\* r, s = _print_expression(ns, node)
PrintExpr ==
    /\ res = NoRes
    /\ res' = _print_expression(ExprNs, node)
    /\ UNCHANGED <<node, otherThanExpr>>

ExprNext ==
    \/ MkUnary \/ MkBinary \/ MkTernary \/ MkSlice \/ MkCat \/ MkReplicate \/ MkPart
    \/ PrintExpr

SpecExpr == ExprInit /\ [][ExprNext]_vars

(***************************************************************************)
(* Properties of the expression renderer (SpecExpr).                       *)
(***************************************************************************)
IsBinaryNode == node.kind = "Operator" /\ Len(node.operands) = BINARY

IsShift(op) == op \in {"<<<", ">>>"}

\* C1: a rendered binary operator joins its two operand texts inside one
\* pair of parentheses; unless the operator is <<< or >>>, when exactly one
\* operand is signed the unsigned operand's text is replaced by its
\* to_signed wrapper and the signed operand's text is left as is; for <<<
\* and >>>, and when both or neither operand is signed, neither text is
\* wrapped; the returned signedness is s1 or s2.
C1_BinaryHarmonization ==
    (res.ok /\ IsBinaryNode) =>
        LET p1 == _print_expression(ExprNs, node.operands[1])
            p2 == _print_expression(ExprNs, node.operands[2])
            oneSigned == p1.signed # p2.signed
            wrap1 == ~IsShift(node.op) /\ oneSigned /\ ~p1.signed
            wrap2 == ~IsShift(node.op) /\ oneSigned /\ ~p2.signed
            t1 == IF wrap1 THEN to_signed(p1.text) ELSE p1.text
            t2 == IF wrap2 THEN to_signed(p2.text) ELSE p2.text
        IN  /\ res.text = <<"(">> \o t1 \o <<" ", node.op, " ">> \o t2 \o <<")">>
            /\ res.signed = (p1.signed \/ p2.signed)

\* b + c was rendered: the unsigned b is wrapped, the signed c is not.
C1_Witness ==
    /\ res.ok
    /\ node = Operator("+", <<Signal(SigB), Signal(SigC)>>)
    /\ res.text = <<"(">> \o to_signed(<<"b">>) \o <<" ", "+", " ", "c", ")">>
    /\ res.signed

IsOneBitSignal(n) == n.kind = "Signal" /\ n.sig.nbits = 1

\* C9: a slice with stop - start >= 1 renders as the rendered value followed
\* by nothing when the value is a 1-bit signal (and then start is 0: any
\* other start is refused), by [start] when stop - start = 1 and by
\* [stop-1:start] when stop - start > 1; the signedness is the value's.
C9_SliceRendering ==
    (res # NoRes /\ node.kind = "Slice" /\ node.stop - node.start >= 1) =>
        LET p == _print_expression(ExprNs, node.value)
            suffix == IF IsOneBitSignal(node.value) THEN <<>>
                      ELSE IF node.stop - node.start = 1
                      THEN <<"[", ToString(node.start), "]">>
                      ELSE <<"[", ToString(node.stop - 1), ":", ToString(node.start), "]">>
        IN  p.ok =>
              /\ res.ok <=> (IsOneBitSignal(node.value) => node.start = 0)
              /\ res.ok => (res.text = p.text \o suffix /\ res.signed = p.signed)

\* c[2:3] was rendered, the single-index slice of a multi-bit signed signal.
C9_Witness ==
    /\ node = Slice(Signal(SigC), 2, 3)
    /\ res.ok
    /\ res.text = <<"c", "[", "2", "]">>
    /\ res.signed

IsUnaryNode == node.kind = "Operator" /\ Len(node.operands) = UNARY

\* The characters of a text given as its pieces.
RECURSIVE Text(_)
Text(toks) == IF toks = <<>> THEN "" ELSE Head(toks) \o Text(Tail(toks))

\* The signed interpretation of the concatenation of one zero high bit and
\* the operand r, in Verilog.
SignExtension(r) == "$signed({1'd0, " \o r \o "})"

\* C11: a rendered unary operator: for "-" the returned signedness is
\* signed, and an unsigned operand's text is wrapped in the sign extension
\* (the signed interpretation of the concatenation of one zero high bit and
\* the operand) and then negated, a signed operand's text is negated as it
\* is; for any other unary operator the operand's text is prefixed by the
\* operator, unwrapped, and the signedness is the operand's.
C11_UnaryRendering ==
    (res.ok /\ IsUnaryNode) =>
        LET p  == _print_expression(ExprNs, node.operands[1])
            r1 == Text(p.text)
        IN  IF node.op = "-"
            THEN /\ res.signed
                 /\ Text(res.text) = "(-" \o (IF p.signed THEN r1 ELSE SignExtension(r1)) \o ")"
            ELSE /\ res.signed = p.signed
                 /\ Text(res.text) = "(" \o node.op \o r1 \o ")"

\* How many pieces of the text are the bracket c.
Count(toks, c) == Cardinality({i \in 1..Len(toks) : toks[i] = c})

\* Every prefix opens at least as often as it closes, and the text as a
\* whole as often.
Balanced(toks, open, close) ==
    /\ \A k \in 0..Len(toks) :
          Count(SubSeq(toks, 1, k), close) <= Count(SubSeq(toks, 1, k), open)
    /\ Count(toks, close) = Count(toks, open)

\* C12: the text _print_expression returns for an expression built from
\* constants, signals, operators, slices, concatenations and replications
\* is well-bracketed: as many "(" as ")", as many "{" as "}", and no prefix
\* closes more brackets than it has opened.
C12_WellBracketed ==
    res.ok => (Balanced(res.text, "(", ")") /\ Balanced(res.text, "{", "}"))

(***************************************************************************)
(* SpecNode: the front end fills the arm map of a Case, arm by arm, and    *)
(* the back end renders the statement.                                     *)
(***************************************************************************)
StmtNs == build_namespace(NameOrder(StmtSignals, {}),
                          _ieee_1800_2017_verilog_reserved_keywords)

ArmKeys == {Constant(0, 2, FALSE), Constant(1, 2, FALSE), Constant(3, 2, FALSE),
            Constant(-1, 2, TRUE), DefaultKey}

ArmBodies == {<<Assign(Signal(SigY), Signal(SigB))>>,
              <<Assign(Signal(SigV), Signal(SigC)), Finish>>}

NodeInit ==
    /\ stmt = Case(Signal(SigB), <<>>)
    /\ nargs = NoArgs
    /\ nres = NoLines
    /\ ExprIdle /\ SyncIdle /\ ConvIdle

\* cases[key] = body, for a key the map does not hold yet.
AddArm ==
    /\ nres = NoLines
    /\ Len(stmt.cases) < MaxArms
    /\ \E key \in ArmKeys, body \in ArmBodies :
          /\ \A i \in 1..Len(stmt.cases) : stmt.cases[i][1] # key
          /\ stmt' = [stmt EXCEPT !.cases = Append(@, <<key, body>>)]
    /\ UNCHANGED <<nargs, nres, otherThanNode>>

\* _print_node(ns, at, level, stmt, target_filter)
PrintNode ==
    /\ nres = NoLines
    /\ \E at \in {_AT_BLOCKING, _AT_NONBLOCKING, _AT_SIGNAL}, level \in 0..1,
          tf \in {NoFilter, SigY} :
          /\ nargs' = [at |-> at, level |-> level, tf |-> tf]
          /\ nres' = _print_node(StmtNs, at, level, stmt, tf)
    /\ UNCHANGED <<stmt, otherThanNode>>

NodeNext == AddArm \/ PrintNode

SpecNode == NodeInit /\ [][NodeNext]_vars

(***************************************************************************)
(* Properties of the Case rendering (SpecNode).                            *)
(***************************************************************************)
\* The arm headers of a rendered Case: the lines "<key>: begin".
IsArmHeader(ln) ==
    /\ Len(ln) >= 4
    /\ ln[Len(ln)] = "begin\n"
    /\ ln[Len(ln) - 2] = ":"

ArmHeaderKeys(lines, level) ==
    LET hs == SelectSeq(lines, IsArmHeader)
    IN  [i \in 1..Len(hs) |-> SubSeq(hs[i], level + 2, Len(hs[i]) - 3)]

\* The constants of a set in ascending order of value.
RECURSIVE Ascending(_)
Ascending(S) ==
    IF S = {} THEN <<>>
    ELSE LET m == CHOOSE k \in S : \A j \in S : k.value <= j.value
         IN  <<m>> \o Ascending(S \ {m})

\* C8: a rendered Case with a non-empty arm map has one arm header per arm
\* of the map: the constant keys in strictly ascending order of value,
\* whatever the insertion order, then the default arm, once and last, when
\* the map has one; a Case with an empty arm map renders as empty text.
C8_CaseArmsOrdered ==
    (nres.ok /\ stmt.kind = "Case") =>
        LET keys   == {stmt.cases[i][1] : i \in 1..Len(stmt.cases)}
            consts == Ascending({k \in keys : k.kind = "Constant"})
            expect == [i \in 1..Len(consts) |-> PrintConstant(consts[i]).text]
                      \o (IF DefaultKey \in keys THEN <<(<<"default">>)>> ELSE <<>>)
            filtered == nargs.tf # NoFilter /\ nargs.tf \notin list_targets(stmt)
        IN  /\ (stmt.cases = <<>> \/ filtered) => nres.lines = <<>>
            /\ (stmt.cases # <<>> /\ ~filtered) =>
                  /\ ArmHeaderKeys(nres.lines, nargs.level) = expect
                  /\ Len(expect) = Len(stmt.cases)
                  /\ \A i, j \in 1..Len(consts) : i < j => consts[i].value < consts[j].value

\* default, 3 and -1 were inserted in that order and come out as -1, 3, default.
C8_Witness ==
    /\ nres.ok
    /\ Len(stmt.cases) = 3
    /\ stmt.cases[1][1] = DefaultKey
    /\ stmt.cases[2][1] = Constant(3, 2, FALSE)
    /\ stmt.cases[3][1] = Constant(-1, 2, TRUE)
    /\ ArmHeaderKeys(nres.lines, nargs.level)
          = << <<"-", "2", "'d", "1">>, <<"2", "'d", "3">>, <<"default">> >>

(***************************************************************************)
(* SpecSync: the front end adds statements to the synchronous mapping of a *)
(* fragment whose clock domains are registered, and the back end renders   *)
(* the synchronous section.                                                *)
(***************************************************************************)
SyncRegistry == <<ClockDomain("sys2", 0, 20), ClockDomain("por", 0, 22),
                  ClockDomain("sys", 0, 24)>>

SyncSignals ==
    StmtSignals \cup UNION {{SyncRegistry[i].clk, SyncRegistry[i].rst} : i \in 1..3}

SyncNs == build_namespace(NameOrder(SyncSignals, {}),
                          _ieee_1800_2017_verilog_reserved_keywords)

SyncStatements ==
    {Assign(Signal(SigY), Signal(SigB)),
     Assign(Signal(SigV), Signal(SigC)),
     If(Signal(SigA), <<Assign(Slice(Signal(SigZ), 0, 2), Constant(1, 2, FALSE))>>,
                      <<Assign(Slice(Signal(SigV), 1, 2), Signal(SigA))>>),
     Case(Signal(SigB), << <<Constant(1, 4, FALSE),
                             <<Assign(Cat(<<Signal(SigX), Signal(SigY)>>), Signal(SigB))>> >> >>)}

SyncKeys(items) == {items[i][1] : i \in 1..Len(items)}

SyncOps(items) ==
    LET n[i \in 0..Len(items)] ==
            IF i = 0 THEN 0 ELSE n[i - 1] + (IF items[i][2] = <<>> THEN 1 ELSE Len(items[i][2]))
    IN  n[Len(items)]

SyncInit ==
    /\ sync = <<>>
    /\ clock_domains = SyncRegistry
    /\ sres = NoLines
    /\ ExprIdle /\ NodeIdle /\ ConvIdle

\* sync.<domain> += statement: the block of the domain grows, a new domain
\* is added after the ones the mapping holds.
SyncAppend ==
    /\ sres = NoLines
    /\ SyncOps(sync) < MaxSyncOps
    /\ \E d \in DomainNames, st \in SyncStatements :
          IF d \in SyncKeys(sync)
          THEN sync' = [i \in 1..Len(sync) |->
                           IF sync[i][1] = d THEN <<d, Append(sync[i][2], st)>> ELSE sync[i]]
          ELSE sync' = Append(sync, <<d, <<st>>>>)
    /\ UNCHANGED <<clock_domains, sres, otherThanSync>>

\* sync.<domain> += []: a domain with an empty block.
SyncTouch ==
    /\ sres = NoLines
    /\ SyncOps(sync) < MaxSyncOps
    /\ \E d \in DomainNames \ SyncKeys(sync) : sync' = Append(sync, <<d, <<>>>>)
    /\ UNCHANGED <<clock_domains, sres, otherThanSync>>

PrintSync ==
    /\ sres = NoLines
    /\ sres' = _print_synchronous_logic(sync, clock_domains, SyncNs)
    /\ UNCHANGED <<sync, clock_domains, otherThanSync>>

SyncNext == SyncAppend \/ SyncTouch \/ PrintSync

SpecSync == SyncInit /\ [][SyncNext]_vars

(***************************************************************************)
(* Properties of the synchronous section (SpecSync).                       *)
(***************************************************************************)
IsAssignmentOperator(tok) == tok = " = " \/ tok = " <= "

IsAssignmentLine(ln) == \E i \in 1..Len(ln) : IsAssignmentOperator(ln[i])

OperatorIndex(ln) == CHOOSE i \in 1..Len(ln) : IsAssignmentOperator(ln[i])

\* The signals named on the left of the assignment operator of a line.
Destinations(ns, ln) ==
    {sg \in StmtSignals : \E j \in 1..(OperatorIndex(ln) - 1) : ln[j] = get_name(ns, sg)}

AssignmentLines(lines) == {lines[i] : i \in {j \in 1..Len(lines) : IsAssignmentLine(lines[j])}}

\* C6 as stated: every assignment of the synchronous section uses " <= ".
C6_AllNonBlocking ==
    sres.ok => \A ln \in AssignmentLines(sres.lines) : ln[OperatorIndex(ln)] = " <= "

\* C6 as amended: every assignment of the synchronous section uses " <= "
\* when its destination is not a variable, and " = " when its destination
\* (a signal, or the signal under a slice or a concatenation) is a variable.
C6_ContextDependent ==
    sres.ok => \A ln \in AssignmentLines(sres.lines) :
        /\ Destinations(SyncNs, ln) # {}
        /\ (\A sg \in Destinations(SyncNs, ln) : ~sg.variable) => ln[OperatorIndex(ln)] = " <= "
        /\ (\A sg \in Destinations(SyncNs, ln) : sg.variable) => ln[OperatorIndex(ln)] = " = "

\* A block with an assignment to the register y and one to the variable v.
C6_Witness ==
    /\ sres.ok
    /\ <<"\t", "y", " <= ", "b", ";\n">> \in AssignmentLines(sres.lines)
    /\ <<"\t", "v", " = ", "c", ";\n">> \in AssignmentLines(sres.lines)

\* The clock names of the edge-triggered blocks, in the order of the text.
BlockClocks(lines) ==
    LET hs == SelectSeq(lines, LAMBDA ln : ln[1] = "always")
    IN  [i \in 1..Len(hs) |-> hs[i][7]]

\* The names of a set in ascending order.
RECURSIVE AscendingNames(_)
AscendingNames(S) ==
    IF S = {} THEN <<>>
    ELSE LET m == CHOOSE a \in S : \A b \in S \ {a} : StrLess(a, b)
         IN  <<m>> \o AscendingNames(S \ {m})

ClockNames(names) ==
    [i \in 1..Len(names) |-> get_name(SyncNs, LookupDomain(SyncRegistry, names[i])[1].clk)]

NonEmptyKeys(items) == {items[i][1] : i \in {j \in 1..Len(items) : items[j][2] # <<>>}}

\* C7 as stated: one block per domain with a non-empty block and none for
\* any other domain, on the clock of the domain, in ascending order of name.
C7_BlocksOfNonEmptyDomains ==
    sres # NoLines =>
        /\ sres.ok
        /\ BlockClocks(sres.lines) = ClockNames(AscendingNames(NonEmptyKeys(sync)))

\* C7 as amended: one block per key of the synchronous mapping, whether its
\* statement block is empty or not, and none for any other domain, on the
\* clock registered for the domain, in ascending order of domain name,
\* whatever the insertion order of the mapping.
C7_OneBlockPerKey ==
    sres # NoLines =>
        /\ sres.ok
        /\ BlockClocks(sres.lines) = ClockNames(AscendingNames(SyncKeys(sync)))

\* sys2 was added before sys, and por with an empty block: three blocks,
\* por, sys, sys2.
C7_Witness ==
    /\ sres.ok
    /\ Len(sync) = 3
    /\ sync[1][1] = "sys2" /\ sync[1][2] # <<>>
    /\ sync[2][1] = "sys" /\ sync[2][2] # <<>>
    /\ sync[3] = <<"por", <<>>>>
    /\ BlockClocks(sres.lines) = <<"por_clk", "sys_clk", "sys2_clk">>

(***************************************************************************)
(* SpecFrag: the front end builds a fragment (combinatorial statements, a  *)
(* synchronous statement, a special) and the fragment is converted.        *)
(***************************************************************************)
CombStatements ==
    {Assign(Signal(SigX), Signal(SigA)),
     Assign(Signal(SigY), Signal(SigB)),
     If(Signal(SigA), <<Assign(Signal(SigY), Signal(SigC))>>,
                      <<Assign(Signal(SigZ), Signal(SigC))>>),
     Assign(Cat(<<Signal(SigX), Signal(SigY)>>), Signal(SigB)),
     Assign(Slice(Signal(SigZ), 0, 2), Slice(Signal(SigB), 0, 2)),
     Case(Signal(SigB), << <<DefaultKey, <<Assign(Signal(SigZ), Signal(SigC))>> >>,
                           <<Constant(1, 4, FALSE), <<Assign(Signal(SigX), Signal(SigA))>> >> >>)}

FragRegistry == <<ClockDomain("sys", 0, 20)>>

FragSpecials == {Special("Instance", 50, {SigA}, {SigQ}, {SigIO})}

FragPorts ==
    {{SigA, SigB, SigC, SigX, SigY, SigZ, SigQ, SigIO, FragRegistry[1].clk, FragRegistry[1].rst},
     {SigA, SigX, SigY, SigQ}}

\* Iteration orders of the sets of signals: by duid, and the reverse.
IterOrders ==
    LET all == SortByDuid(StmtSignals \cup {SigQ, SigIO})
    IN  {all, Reverse(all)}

Options(create_clock_domains, blocking_assign, regular_comb, sim) ==
    [name |-> "top", special_overrides |-> {"Instance"},
     create_clock_domains |-> create_clock_domains,
     display_run |-> sim, reg_initialization |-> ~sim, dummy_signal |-> ~sim,
     blocking_assign |-> blocking_assign, regular_comb |-> regular_comb]

FragInit ==
    /\ frag = Fragment(<<>>, <<>>, FragRegistry, {})
    /\ cargs = NoCall
    /\ cres = NoCall
    /\ default_ios = {}
    /\ ncreated = 0
    /\ ExprIdle /\ NodeIdle /\ SyncIdle

\* comb += statement
FragComb ==
    /\ cres = NoCall
    /\ Len(frag.comb) < MaxComb
    /\ \E st \in CombStatements : frag' = [frag EXCEPT !.comb = Append(@, st)]
    /\ UNCHANGED <<cargs, cres, default_ios, ncreated, otherThanConv>>

\* sync.sys += target.eq(c), once
FragSync ==
    /\ cres = NoCall
    /\ frag.sync = <<>>
    /\ \E t \in {SigX, SigY, SigZ} :
          frag' = [frag EXCEPT !.sync = << <<"sys", <<Assign(Signal(t), Signal(SigC))>> >> >>]
    /\ UNCHANGED <<cargs, cres, default_ios, ncreated, otherThanConv>>

\* specials += instance
FragSpecial ==
    /\ cres = NoCall
    /\ frag.specials = {}
    /\ frag' = [frag EXCEPT !.specials = FragSpecials]
    /\ UNCHANGED <<cargs, cres, default_ios, ncreated, otherThanConv>>

\* convert(frag, ios, ...) with a port set of the caller
ConvertFrag ==
    /\ cres = NoCall
    /\ \E ios \in FragPorts, blocking_assign \in BOOLEAN, regular_comb \in BOOLEAN,
          sim \in BOOLEAN, iter \in IterOrders :
          LET o == Options(TRUE, blocking_assign, regular_comb, sim)
          IN  \E r \in {convert(frag, ios, o, ncreated, iter)} :
                  /\ cargs' = [ios |-> ios, default |-> FALSE, o |-> o, iter |-> iter]
                  /\ cres' = r
                  /\ frag' = [frag EXCEPT !.clock_domains = r.clock_domains]
                  /\ ncreated' = r.serial
    /\ UNCHANGED <<default_ios, otherThanConv>>

FragNext == FragComb \/ FragSync \/ FragSpecial \/ ConvertFrag

SpecFrag == FragInit /\ [][FragNext]_vars

(***************************************************************************)
(* Properties of the converted fragment.                                   *)
(***************************************************************************)
Converted == cres # NoCall /\ cres.ok

\* The namespace the conversion ended with.
ResultNs == [names |-> cres.ns]

Shares(sl, i, j) == list_targets(sl[i]) \cap list_targets(sl[j]) # {}

\* The statements tied to those of S by a chain of shared targets.
RECURSIVE Component(_, _)
Component(sl, S) ==
    LET S2 == S \cup {j \in 1..Len(sl) : \E i \in S : Shares(sl, i, j)}
    IN  IF S2 = S THEN S ELSE Component(sl, S2)

ComponentTargets(sl, C) == UNION {list_targets(sl[i]) : i \in C}

LoneAssignment(sl, i) == sl[i].kind = "_Assign" /\ Component(sl, {i}) = {i}

AlwaysHeader == <<"always", " ", "@", "(", "*", ")", " ", "begin\n">>

AlwaysHeaders(lines) == {h \in 1..Len(lines) : lines[h] = AlwaysHeader}

ExpectedDefault(t, op) ==
    <<"\t", cres.ns[t.id], op>> \o _print_expression(ResultNs, ResetOf(t)).text \o <<";\n">>

\* The statements of C printed one after the other, lowest index first.
RECURSIVE ExpectedBody(_, _, _, _)
ExpectedBody(sl, C, i, at) ==
    IF i > Len(sl) THEN <<>>
    ELSE (IF i \in C THEN _print_node(ResultNs, at, 1, sl[i], NoFilter).lines ELSE <<>>)
         \o ExpectedBody(sl, C, i + 1, at)

\* The block that starts at line h is that of the statements C.
BlockOf(lines, h, sl, C, blocking_assign) ==
    LET ts   == ComponentTargets(sl, C)
        n    == Cardinality(ts)
        body == ExpectedBody(sl, C, 1, IF blocking_assign THEN _AT_BLOCKING ELSE _AT_NONBLOCKING)
        op   == IF blocking_assign THEN " = " ELSE " <= "
    IN  /\ h + n + Len(body) + 1 <= Len(lines)
        /\ {lines[h + k] : k \in 1..n} = {ExpectedDefault(t, op) : t \in ts}
        /\ SubSeq(lines, h + n + 1, h + n + Len(body)) = body
        /\ lines[h + n + Len(body) + 1] = <<"end\n">>

\* C2: in the synthesis strategy, with blocking and with non-blocking
\* assignments, every group of statements that is not one direct assignment
\* is printed as an always @(*) block that holds one assignment to the reset
\* value for every target of the group, all of them before the first
\* statement of the body, and then the statements of the group in their
\* original order; there is one such block per group.
C2_DefaultsBeforeBody ==
    (Converted /\ cargs.o.regular_comb) =>
        LET sl == frag.comb
            blocks == {Component(sl, {i}) : i \in {j \in 1..Len(sl) : ~LoneAssignment(sl, j)}}
        IN  /\ Cardinality(AlwaysHeaders(cres.comb)) = Cardinality(blocks)
            /\ \A C \in blocks :
                  \E h \in AlwaysHeaders(cres.comb) :
                      BlockOf(cres.comb, h, sl, C, cargs.o.blocking_assign)

\* y = b and If(a, y = c, z = c) make one group with the targets y and z:
\* the block has the two defaults, then the two statements.
C2_Witness ==
    /\ Converted /\ cargs.o.regular_comb /\ ~cargs.o.blocking_assign
    /\ frag.comb = <<Assign(Signal(SigY), Signal(SigB)),
                     If(Signal(SigA), <<Assign(Signal(SigY), Signal(SigC))>>,
                                      <<Assign(Signal(SigZ), Signal(SigC))>>)>>
    /\ Len(cres.comb) = 11
    /\ cres.comb[1] = AlwaysHeader
    /\ cres.comb[2] = <<"\t", "y", " <= ", "4", "'d", "5", ";\n">>
    /\ cres.comb[3] = <<"\t", "z", " <= ", "-", "4", "'d", "1", ";\n">>
    /\ cres.comb[4] = <<"\t", "y", " <= ", "b", ";\n">>
    /\ cres.comb[5] = <<"\t", "if", " ", "(", "a", ")", " ", "begin\n">>
    /\ cres.comb[10] = <<"end\n">>

\* The line of the port list that declares the port sg.
PortDecl(sg) ==
    LET ls == cres.module
        i  == CHOOSE k \in 1..Len(ls) :
                  /\ Len(ls[k]) >= 6 /\ ls[k][1] = "\t"
                  /\ ls[k][Len(ls[k]) - 1] = cres.ns[sg.id]
    IN  ls[i]

Direction(sg) == PortDecl(sg)[2]

Storage(sg) == PortDecl(sg)[4]

Outputs == {sg \in cres.ios : Direction(sg) = "output"}

SyncTargets == BlockTargets(SyncBlocks(frag))

PrimitiveOutputs == list_special_ios(frag, FALSE, TRUE, TRUE)

\* sg has one driver, and it is a direct combinatorial assignment.
OnlyDriverIsOneAssignment(sg) ==
    /\ sg \notin SyncTargets
    /\ sg \notin PrimitiveOutputs
    /\ \E i \in 1..Len(frag.comb) :
          /\ frag.comb[i].kind = "_Assign"
          /\ sg \in list_targets(frag.comb[i])
          /\ \A j \in 1..Len(frag.comb) : j # i => sg \notin list_targets(frag.comb[j])

\* sg is written by a direct combinatorial assignment that shares no
\* target with another combinatorial statement.
WrittenByLoneAssignment(sg) ==
    \E i \in 1..Len(frag.comb) :
        /\ frag.comb[i].kind = "_Assign"
        /\ sg \in list_targets(frag.comb[i])
        /\ \A j \in 1..Len(frag.comb) : j # i => ~Shares(frag.comb, i, j)

\* C10 as stated: an output port is declared "output wire" if and only if
\* its only driver is a single unconditional combinatorial assignment, and
\* "output reg" otherwise.
C10_WireIffOnlyDriverIsOneAssignment ==
    Converted =>
        \A sg \in Outputs :
            /\ Storage(sg) \in {"wire", "reg"}
            /\ Storage(sg) = "wire" <=> OnlyDriverIsOneAssignment(sg)

\* C10, amended: an output port is declared "output wire" if and only if it
\* is an output pin of a structural primitive or it is written by a direct
\* combinatorial assignment that shares no target with another
\* combinatorial statement, whatever the synchronous statements write; every
\* other output port is declared "output reg".
C10_WireIffLoneAssignmentOrPrimitive ==
    Converted =>
        \A sg \in Outputs :
            /\ Storage(sg) \in {"wire", "reg"}
            /\ Storage(sg) = "wire" <=>
                  (sg \in PrimitiveOutputs \/ WrittenByLoneAssignment(sg))

\* x = a alone drives x, If(a, y = c, z = c) drives y, the instance drives
\* q: x and q are output wire, y is output reg.
C10_Witness ==
    /\ Converted
    /\ frag.comb = <<Assign(Signal(SigX), Signal(SigA)),
                     If(Signal(SigA), <<Assign(Signal(SigY), Signal(SigC))>>,
                                      <<Assign(Signal(SigZ), Signal(SigC))>>)>>
    /\ frag.specials = FragSpecials
    /\ cargs.ios = {SigA, SigX, SigY, SigQ}
    /\ PortDecl(SigX) = <<"\t", "output", " ", "wire", " ", "x", ",\n">>
    /\ PortDecl(SigY) = <<"\t", "output", " ", "reg", " ", "[", "3", ":0] ", "y", ",\n">>
    /\ PortDecl(SigQ) = <<"\t", "output", " ", "wire", " ", "[", "3", ":0] ", "q", "\n">>

\* The combinatorial targets are written by combinatorial statements only.
CombOnly == BlockTargets(frag.comb) \cap (SyncTargets \cup PrimitiveOutputs) = {}

\* The line of the module header that declares sg: its port, or its wire
\* or reg.
Declaration(sg) ==
    LET ls == cres.module
        i  == CHOOSE k \in 1..Len(ls) :
                  /\ ls[k][1] \in {"\t", "wire", "reg"}
                  /\ \E j \in 2..Len(ls[k]) : ls[k][j] = cres.ns[sg.id]
    IN  ls[i]

\* "wire" or "reg".
DeclaredAs(sg) == IF Declaration(sg)[1] = "\t" THEN Declaration(sg)[4] ELSE Declaration(sg)[1]

\* sg is named on the left of the assignment of the line.
WrittenBy(ln, sg) ==
    /\ IsAssignmentLine(ln)
    /\ \E j \in 1..(OperatorIndex(ln) - 1) : ln[j] = cres.ns[sg.id]

ContinuousAssigns == {cres.comb[i] : i \in {j \in 1..Len(cres.comb) : cres.comb[j][1] = "assign"}}

\* The lines inside the always @(*) blocks of the combinatorial section.
ProceduralLines == {cres.comb[i] : i \in {j \in 1..Len(cres.comb) : cres.comb[j][1] = "\t"}}

\* C13: when the combinatorial targets are written by combinatorial
\* statements only, in the synthesis and in the simulation strategy, every
\* signal that is a target of a printed continuous assign is declared as a
\* wire, and every signal assigned inside a printed always @(*) block is
\* declared as a reg.
C13_DeclarationAgreesWithDriver ==
    (Converted /\ CombOnly) =>
        \A sg \in BlockTargets(frag.comb) :
            /\ (\E ln \in ContinuousAssigns : WrittenBy(ln, sg)) => DeclaredAs(sg) = "wire"
            /\ (\E ln \in ProceduralLines : WrittenBy(ln, sg)) => DeclaredAs(sg) = "reg"

(***************************************************************************)
(* SpecConv: one process converts fragments one after the other.  A call   *)
(* that leaves ios out gets the set object made when convert was defined,  *)
(* default_ios; the clock domains a call makes are new objects.            *)
(***************************************************************************)
\* Fragments of the callers: no synchronous logic; "sys" used and not
\* registered; "por" and "sys" used and only "sys" registered; "sys" and
\* "sys2" used and "sys2", "por" registered.
ConvFragments ==
    {Fragment(<<Assign(Signal(SigX), Signal(SigA))>>, <<>>, <<>>, {}),
     Fragment(<<>>, << <<"sys", <<Assign(Signal(SigY), Signal(SigC))>> >> >>, <<>>, {}),
     Fragment(<<>>, << <<"sys", <<Assign(Signal(SigY), Signal(SigC))>> >>,
                       <<"por", <<Assign(Signal(SigZ), Signal(SigC))>> >> >>,
              <<ClockDomain("sys", 90, 20)>>, {}),
     Fragment(<<Assign(Signal(SigX), Signal(SigA))>>,
              << <<"sys2", <<Assign(Signal(SigY), Signal(SigC))>> >>,
                 <<"sys", <<Assign(Signal(SigZ), Signal(SigC))>> >> >>,
              <<ClockDomain("sys2", 91, 22), ClockDomainResetLess("por", 92, 24)>>, {})}

\* Port sets the callers pass.
ConvPorts == {{SigA, SigX}, {SigA, SigC, SigX, SigY, SigZ}}

ConvIter == SortByDuid(StmtSignals)

ConvInit == ConvIdle /\ ExprIdle /\ NodeIdle /\ SyncIdle

\* convert(f, ...) with ios left out
ConvertDefault ==
    /\ ncreated < MaxCreated
    /\ \E f \in ConvFragments, create_clock_domains \in BOOLEAN :
          LET o == Options(create_clock_domains, FALSE, TRUE, FALSE)
          IN  \E r \in {convert(f, default_ios, o, ncreated, ConvIter)} :
                  /\ cargs' = [f |-> f, ios |-> default_ios, default |-> TRUE,
                               o |-> o, iter |-> ConvIter]
                  /\ cres' = r
                  /\ frag' = [f EXCEPT !.clock_domains = r.clock_domains]
                  /\ default_ios' = r.ios
                  /\ ncreated' = r.serial
    /\ UNCHANGED otherThanConv

\* convert(f, ios, ...) with a set of the caller
ConvertWith ==
    /\ ncreated < MaxCreated
    /\ \E f \in ConvFragments, ios \in ConvPorts, create_clock_domains \in BOOLEAN :
          LET o == Options(create_clock_domains, FALSE, TRUE, FALSE)
          IN  \E r \in {convert(f, ios, o, ncreated, ConvIter)} :
                  /\ cargs' = [f |-> f, ios |-> ios, default |-> FALSE,
                               o |-> o, iter |-> ConvIter]
                  /\ cres' = r
                  /\ frag' = [f EXCEPT !.clock_domains = r.clock_domains]
                  /\ ncreated' = r.serial
    /\ UNCHANGED <<default_ios, otherThanConv>>

ConvNext == ConvertDefault \/ ConvertWith

SpecConv == ConvInit /\ [][ConvNext]_vars

Document(r) == <<r.module, r.comb, r.sync, r.specials>>

AssignedNames(r) == {r.ns[id] : id \in DOMAIN r.ns}

\* The same call as the first conversion of a process.
AsFirstCall ==
    convert(cargs.f, IF cargs.default THEN {} ELSE cargs.ios, cargs.o, 0, cargs.iter)

\* C3: the result of a convert call is a function of its own arguments:
\* the call gives the document and the names it would give as the first
\* conversion of the process, whatever calls came before it.
C3_CallsIndependent ==
    cres # NoCall =>
        /\ cres.ok = AsFirstCall.ok
        /\ Document(cres) = Document(AsFirstCall)
        /\ AssignedNames(cres) = AssignedNames(AsFirstCall)

\* The domain names the synchronous statements use that the registry lacks.
Missing(f) == {n \in list_clock_domains(f) : ~HasDomain(f.clock_domains, n)}

Unresolvable == cres # NoCall /\ ~cargs.o.create_clock_domains /\ Missing(cargs.f) # {}

\* C4: with create_clock_domains disabled and a domain name of the
\* synchronous statements absent from the registry, convert raises an
\* exception whose message names the missing domain (the first in sorted
\* order) and then lists the name of every domain of the registry; there is
\* no document, and the registry and the port set are as they were.
C4_UnresolvedDomain ==
    Unresolvable =>
        LET cds == cargs.f.clock_domains
        IN  /\ ~cres.ok
            /\ cres.exception = "Exception"
            /\ Len(cres.err) = 1 + Len(cds)
            /\ \E m \in Missing(cargs.f) :
                  /\ \A n \in Missing(cargs.f) \ {m} : StrLess(m, n)
                  /\ cres.err[1] = <<"Unresolved clock domain ", m, ", availables:\n">>
            /\ \A i \in 1..Len(cds) : cres.err[1 + i] = <<"- ", cds[i].name, "\n">>
            /\ Document(cres) = <<<<>>, <<>>, <<>>, <<>>>>
            /\ frag.clock_domains = cds
            /\ cres.ios = cargs.ios
            /\ cargs.default => default_ios = cargs.ios

\* "por" is missing and "sys" is registered, after a call that made a
\* clock domain.
C4_Witness ==
    /\ Unresolvable
    /\ ncreated > 0
    /\ list_clock_domains(cargs.f) = {"por", "sys"}
    /\ cres.err = << <<"Unresolved clock domain ", "por", ", availables:\n">>,
                     <<"- ", "sys", "\n">> >>

(***************************************************************************)
(* SpecNs: signals whose names come from a pool with reserved keywords in  *)
(* it are declared, and the fragment is converted.                         *)
(***************************************************************************)
NamePool == {"reg", "wire", "repeat", "union", "uwire", "data"}

\* The k-th signal of the design, of the given name; fixed: the name is a
\* name_override, else it is derived from the backtrace.
NamedSignal(k, name, fixed) ==
    [Sig("n" \o ToString(k), 30 + k, 1, FALSE, FALSE, 0) EXCEPT !.name = name, !.fixed = fixed]

NsIter(f) == SortByDuid(BlockTargets(f.comb))

NsInit ==
    /\ frag = Fragment(<<>>, <<>>, <<>>, {})
    /\ cargs = NoCall
    /\ cres = NoCall
    /\ default_ios = {}
    /\ ncreated = 0
    /\ ExprIdle /\ NodeIdle /\ SyncIdle

\* s = Signal(name=...); comb += s.eq(a)
NsDeclare ==
    /\ cres = NoCall
    /\ Len(frag.comb) < MaxNamed
    /\ \E name \in NamePool, fixed \in BOOLEAN :
          frag' = [frag EXCEPT !.comb =
                      Append(@, Assign(Signal(NamedSignal(Len(frag.comb) + 1, name, fixed)),
                                       Signal(SigA)))]
    /\ UNCHANGED <<cargs, cres, default_ios, ncreated, otherThanConv>>

\* convert(frag, ios): the declared signals are ports, or none is
NsConvert ==
    /\ cres = NoCall
    /\ frag.comb # <<>>
    /\ \E ios \in {{}, BlockTargets(frag.comb)} :
          LET o == Options(TRUE, FALSE, TRUE, FALSE)
          IN  \E r \in {convert(frag, ios, o, ncreated, NsIter(frag))} :
                  /\ cargs' = [ios |-> ios, default |-> FALSE, o |-> o, iter |-> NsIter(frag)]
                  /\ cres' = r
                  /\ ncreated' = r.serial
    /\ UNCHANGED <<frag, default_ios, otherThanConv>>

NsNext == NsDeclare \/ NsConvert

SpecNs == NsInit /\ [][NsNext]_vars

\* The entries of the keyword table that are a keyword with spaces before it.
PaddedKeywords == {"      repeat", "       union", "   uwire"}

\* The keywords the table is meant to list.
IntendedKeywords ==
    (_ieee_1800_2017_verilog_reserved_keywords \ PaddedKeywords)
    \cup {"repeat", "union", "uwire"}

\* C5: the names the namespace assigns to the signals of a conversion are
\* pairwise distinct, and none is a reserved keyword of the table: a signal
\* whose name is a keyword gets a name that differs from the keyword.
C5_NamesDistinctAndNotReserved ==
    Converted =>
        /\ \A i, j \in DOMAIN cres.ns : i # j => cres.ns[i] # cres.ns[j]
        /\ \A i \in DOMAIN cres.ns : cres.ns[i] \notin IntendedKeywords

====
